---------------------------- MODULE Spec2Model ----------------------------
(***************************************************************************)
(* Model of the FAQ chat widget: the chat panel (ChatboxComponent), the    *)
(* retrieval-and-synthesis service (RagService), the delay utility, the    *)
(* topic bridge (TopicsBridgeService), the sidebar and the shell.          *)
(*                                                                         *)
(* Texts are TLA+ strings, read as sequences of characters with Len,       *)
(* SubSeq and \o.  Two characters of the program text that are not ASCII   *)
(* are written with ASCII stand-ins that occur nowhere else: the right     *)
(* single quote as ' and the bullet as @.                                  *)
(***************************************************************************)
EXTENDS Integers, Sequences, FiniteSets, TLC

(***************************************************************************)
(* Bounds of the model.                                                    *)
(***************************************************************************)
\* raw inputs of InputSpec are concatenations of at most MaxFrags fragments
MaxFrags == 3
\* the handlers that append to the transcript are taken while it is shorter
MaxMsgs == 5
\* subscribers of the topic bridge besides the chat panel, in BridgeSpec
MaxSubs == 2
\* values a subscriber of BridgeSpec receives before publishing stops
MaxLog == 3

(***************************************************************************)
(* Characters and strings (the JavaScript string operations the code uses) *)
(***************************************************************************)
\* a value no text can take: null / undefined of a string-valued field
Null == "NULL"

CharAt(s, i) == SubSeq(s, i, i)

UpperCase == "ABCDEFGHIJKLMNOPQRSTUVWXYZ"
LowerCase == "abcdefghijklmnopqrstuvwxyz"
Digits == "0123456789"

UpperSet == {CharAt(UpperCase, i) : i \in 1..Len(UpperCase)}
LowerSet == {CharAt(LowerCase, i) : i \in 1..Len(LowerCase)}
DigitSet == {CharAt(Digits, i) : i \in 1..Len(Digits)}

\* the lower case letter of each upper case letter
lowerOf ==
  [c \in UpperSet |->
     CharAt(LowerCase, CHOOSE i \in 1..Len(UpperCase) : CharAt(UpperCase, i) = c)]

\* String.prototype.toLowerCase, one character
LowerChar(c) == IF c \in UpperSet THEN lowerOf[c] ELSE c

\* String.prototype.toLowerCase: every character mapped, the string taken
\* by halves
RECURSIVE toLowerCase(_)
toLowerCase(s) ==
  IF Len(s) = 0 THEN ""
  ELSE IF Len(s) = 1 THEN LowerChar(s)
  ELSE toLowerCase(SubSeq(s, 1, Len(s) \div 2))
         \o toLowerCase(SubSeq(s, Len(s) \div 2 + 1, Len(s)))

\* String.prototype.includes
includes(s, q) ==
  \E i \in 0..(Len(s) - Len(q)) : SubSeq(s, i + 1, i + Len(q)) = q

\* the regular expression class \s, over the characters of the model
IsSpace(c) == c \in {" ", "\t", "\n"}

\* the regular expression class \w
IsWordChar(c) == c \in UpperSet \cup LowerSet \cup DigitSet \cup {"_"}

\* the assertion \b between the characters p and p + 1 of s (0 <= p <= Len(s))
WordBoundary(s, p) ==
  LET before == p >= 1 /\ IsWordChar(CharAt(s, p))
      after == p < Len(s) /\ IsWordChar(CharAt(s, p + 1))
  IN before # after

\* text.replace(/\s+/g, ' ') from character i on
RECURSIVE CollapseFrom(_, _)
CollapseFrom(s, i) ==
  IF i > Len(s) THEN ""
  ELSE IF IsSpace(CharAt(s, i))
    THEN IF i < Len(s) /\ IsSpace(CharAt(s, i + 1))
           THEN CollapseFrom(s, i + 1)
           ELSE " " \o CollapseFrom(s, i + 1)
    ELSE CharAt(s, i) \o CollapseFrom(s, i + 1)

\* String.prototype.trim
trim(s) ==
  LET keep == {i \in 1..Len(s) : ~IsSpace(CharAt(s, i))}
  IN IF keep = {} THEN ""
     ELSE SubSeq(s, CHOOSE i \in keep : \A j \in keep : i <= j,
                    CHOOSE i \in keep : \A j \in keep : i >= j)

\* text.replace(/[<>]/g, '') from character i on
RECURSIVE StripFrom(_, _)
StripFrom(s, i) ==
  IF i > Len(s) THEN ""
  ELSE IF CharAt(s, i) \in {"<", ">"}
    THEN StripFrom(s, i + 1)
    ELSE CharAt(s, i) \o StripFrom(s, i + 1)

(***************************************************************************)
(* ChatboxComponent.filterInput                                            *)
(***************************************************************************)
banned == <<"badword", "curse", "offensive">>

MaskToken == "****"

EmptyFeedback == "Please enter a question before sending."
MaskedFeedback == "Note: Certain words were masked for safety."

\* BannedAt for a regular expression without the flag i
BannedAtCaseSensitive(s, i) ==
  {k \in 1..Len(banned) :
     /\ i + Len(banned[k]) - 1 <= Len(s)
     /\ WordBoundary(s, i - 1)
     /\ SubSeq(s, i, i + Len(banned[k]) - 1) = banned[k]
     /\ WordBoundary(s, i + Len(banned[k]) - 1)}

\* the banned words that /\b(badword|curse|offensive)\b/gi matches at
\* character i of s, as indexes of the list
BannedAt(s, i) ==
  {k \in 1..Len(banned) :
     /\ i + Len(banned[k]) - 1 <= Len(s)
     /\ WordBoundary(s, i - 1)
     /\ toLowerCase(SubSeq(s, i, i + Len(banned[k]) - 1)) = banned[k]
     /\ WordBoundary(s, i + Len(banned[k]) - 1)}

\* length of the match of the regular expression at character i, 0 if none:
\* the alternatives are tried in the order of the list
MatchLen(s, i) ==
  LET at == BannedAt(s, i)
  IN IF at = {} THEN 0
     ELSE Len(banned[CHOOSE k \in at : \A j \in at : k <= j])

\* bannedRegex.test(text), lastIndex 0
bannedTest(s) == \E i \in 1..Len(s) : MatchLen(s, i) > 0

\* text.replace(bannedRegex, '****') from character i on: leftmost matches,
\* each replaced, the scan resuming after the match
RECURSIVE MaskFrom(_, _)
MaskFrom(s, i) ==
  IF i > Len(s) THEN ""
  ELSE LET n == MatchLen(s, i)
       IN IF n > 0 THEN MaskToken \o MaskFrom(s, i + n)
          ELSE CharAt(s, i) \o MaskFrom(s, i + 1)

\* normalize without its trim()
normalizeNoTrim(raw) == CollapseFrom(raw, 1)

\* (raw ?? '').replace(/\s+/g, ' ').trim()
normalize(raw) == trim(CollapseFrom(raw, 1))

maskBanned(text) == MaskFrom(text, 1)

stripAngle(text) == StripFrom(text, 1)

\* the branch of filterInput taken when the banned words test succeeds
maskedResult(text) ==
  [cleaned |-> maskBanned(text), feedback |-> MaskedFeedback]

filterInput(raw) ==
  LET text == normalize(raw)
  IN IF text = "" THEN [cleaned |-> Null, feedback |-> Null]
     ELSE IF bannedTest(text) THEN maskedResult(text)
     ELSE [cleaned |-> stripAngle(text), feedback |-> Null]

(***************************************************************************)
(* Topics: SidebarTopicsComponent.topics, TopicsBridgeService              *)
(***************************************************************************)
\* the ids of SidebarTopicsComponent.topics
SidebarTopics == {"getting-started", "account", "security", "api", "troubleshooting"}

\* the value the BehaviorSubject of the bridge is created with
InitialTopic == "getting-started"

\* String.prototype.replace with a string pattern: the first occurrence only
replaceFirst(s, pat, by) ==
  LET at == {i \in 1..(Len(s) - Len(pat) + 1) : SubSeq(s, i, i + Len(pat) - 1) = pat}
  IN IF at = {} THEN s
     ELSE LET i == CHOOSE k \in at : \A j \in at : k <= j
          IN SubSeq(s, 1, i - 1) \o by \o SubSeq(s, i + Len(pat), Len(s))

\* the value of lastSet while setTopic has not been called
NeverSet == "NEVER"

\* a value of type string | null | undefined taken as a condition
truthy(s) == s # Null /\ s # ""

(***************************************************************************)
(* RagService                                                              *)
(***************************************************************************)
mockKnowledgeBase ==
  [t \in SidebarTopics \cup {"default"} |->
    CASE t = "getting-started" ->
           <<"Welcome to our platform! To get started, create an account and verify your email.",
             "Use your dashboard to set up initial preferences and connect integrations.">>
      [] t = "account" ->
           <<"You can update billing details under Settings > Billing.",
             "Invoices are generated monthly and emailed to the account owner.">>
      [] t = "security" ->
           <<"We support SSO, MFA, and granular role-based access control.",
             "All data is encrypted at rest and in transit.">>
      [] t = "api" ->
           <<"Use API keys from Settings > API to authenticate your requests.",
             "Rate limiting is enforced at 60 requests per minute.">>
      [] t = "troubleshooting" ->
           <<"Try clearing cache and re-authenticating if something looks off.",
             "Contact support with your request ID for detailed investigation.">>
      [] t = "default" ->
           <<"I can help with getting started, account & billing, security, API & integrations, and troubleshooting.",
             "Please ask a question or select a topic.">>]

\* query.toLowerCase().split(' ')[0] || ''
firstToken(query) ==
  LET q == toLowerCase(query)
      sp == {i \in 1..Len(q) : CharAt(q, i) = " "}
  IN IF sp = {} THEN q
     ELSE SubSeq(q, 1, (CHOOSE i \in sp : \A j \in sp : i <= j) - 1)

\* base.filter(s => s.toLowerCase().includes(tok)) from entry i on
RECURSIVE filterDocs(_, _, _)
filterDocs(base, i, tok) ==
  IF i > Len(base) THEN <<>>
  ELSE (IF includes(toLowerCase(base[i]), tok) THEN <<base[i]>> ELSE <<>>)
         \o filterDocs(base, i + 1, tok)

\* the names of the properties an object literal inherits from
\* Object.prototype
ObjectPrototypeKeys ==
  {"constructor", "hasOwnProperty", "isPrototypeOf", "propertyIsEnumerable",
   "toLocaleString", "toString", "valueOf", "__proto__",
   "__defineGetter__", "__defineSetter__", "__lookupGetter__", "__lookupSetter__"}

\* obj[key] taken as a condition, obj an object literal whose own properties
\* are arrays: an own property or an inherited one is truthy, any other name
\* gives undefined
hasProperty(obj, key) == key \in DOMAIN obj \/ key \in ObjectPrototypeKeys

\* const key = topic && this.mockKnowledgeBase[topic] ? topic : 'default'
bucketKey(topic) ==
  IF truthy(topic) /\ hasProperty(mockKnowledgeBase, topic) THEN topic ELSE "default"

\* base.filter throws a TypeError where base is an inherited property, which
\* is no array: retrieveFromChroma rejects, and so does ask
retrieveThrows(topic) == bucketKey(topic) \notin DOMAIN mockKnowledgeBase

\* retrieveFromChroma without the fallback to base.slice(0, 2)
retrieveNoFallback(query, topic) ==
  filterDocs(mockKnowledgeBase[bucketKey(topic)], 1, firstToken(query))

\* the part of retrieveFromChroma after its delay, where it does not throw
retrieveFromChroma(query, topic) ==
  LET key == bucketKey(topic)
      base == mockKnowledgeBase[key]
      subset == filterDocs(base, 1, firstToken(query))
  IN IF Len(subset) > 0 THEN subset
     ELSE SubSeq(base, 1, IF Len(base) < 2 THEN Len(base) ELSE 2)

\* a regular expression that is an alternation of literals, flag i
testAny(words, s) ==
  LET low == toLowerCase(s)
  IN \E w \in words : includes(low, w)

\* selectMcpTool testing its second rule first
selectMcpToolApiFirst(question) ==
  IF testAny({"api", "key", "token", "rate"}, question) THEN "api.docs.search"
  ELSE IF testAny({"billing", "invoice", "payment"}, question) THEN "billing.lookup"
  ELSE IF testAny({"security", "mfa", "sso", "rbac"}, question) THEN "security.policy.fetch"
  ELSE IF testAny({"troubleshoot", "error", "issue"}, question) THEN "diagnostics.helper"
  ELSE "knowledge.search"

\* selectMcpTool whose second rule lacks the keyword key
selectMcpToolNoKey(question) ==
  IF testAny({"billing", "invoice", "payment"}, question) THEN "billing.lookup"
  ELSE IF testAny({"api", "token", "rate"}, question) THEN "api.docs.search"
  ELSE IF testAny({"security", "mfa", "sso", "rbac"}, question) THEN "security.policy.fetch"
  ELSE IF testAny({"troubleshoot", "error", "issue"}, question) THEN "diagnostics.helper"
  ELSE "knowledge.search"

selectMcpTool(question) ==
  IF testAny({"billing", "invoice", "payment"}, question) THEN "billing.lookup"
  ELSE IF testAny({"api", "key", "token", "rate"}, question) THEN "api.docs.search"
  ELSE IF testAny({"security", "mfa", "sso", "rbac"}, question) THEN "security.policy.fetch"
  ELSE IF testAny({"troubleshoot", "error", "issue"}, question) THEN "diagnostics.helper"
  ELSE "knowledge.search"

\* docs.map(d => bullet + ' ' + d).join('\n') from entry i on
RECURSIVE joinDocs(_, _)
joinDocs(docs, i) ==
  IF i > Len(docs) THEN ""
  ELSE "@ " \o docs[i] \o (IF i < Len(docs) THEN "\n" ELSE "") \o joinDocs(docs, i + 1)

synthesizeAnswer(question, docs, tool) ==
  "Here's what I found using " \o tool \o ":\n" \o joinDocs(docs, 1)
    \o "\n\nIf you need more details, feel free to ask or refine by selecting a topic."

\* the message ask(question, {topic}) resolves with, where retrieveFromChroma
\* does not throw
askResult(question, topic) ==
  [role |-> "assistant",
   content |-> synthesizeAnswer(question, retrieveFromChroma(question, topic),
                                selectMcpTool(question)),
   error |-> FALSE]

\* a call of ask by a caller other than the chat panel: its arguments, its
\* position, and the documents, the tool and the answer it has computed
DirectCall(question, topic) ==
  [question |-> question, topic |-> topic, pc |-> "idle",
   docs |-> <<>>, tool |-> Null, answer |-> Null]

\* no such caller
NoCall == [DirectCall(Null, Null) EXCEPT !.pc = "none"]

(***************************************************************************)
(* ChatboxComponent: data                                                  *)
(***************************************************************************)
\* ChatMessage; error is FALSE where the code leaves the field out
Msg(r, c) == [role |-> r, content |-> c, error |-> FALSE]

SeedMessage ==
  Msg("assistant",
      "Hi! I'm your AI FAQ assistant. Ask me anything or pick a topic from the left to get started.")

ClearedMessage == Msg("assistant", "Chat cleared. How can I help you next?")

ErrorText == "Sorry, something went wrong while fetching the answer."

\* errMsg without its error flag
errMsgNoFlag == [role |-> "assistant", content |-> ErrorText, error |-> FALSE]

errMsg == [role |-> "assistant", content |-> ErrorText, error |-> TRUE]

contextNote(topic) ==
  Msg("system", "Context updated to topic: " \o replaceFirst(topic, "-", " "))

Faq(t, c) == [title |-> t, content |-> c]

faqCatalog ==
  [t \in SidebarTopics \cup {"default"} |->
    CASE t = "getting-started" ->
           <<Faq("Create an account", "To get started, sign up and verify your email to activate your account."),
             Faq("Initial setup", "Use the dashboard to configure preferences and connect integrations.")>>
      [] t = "account" ->
           <<Faq("Billing details", "Update billing details under Settings > Billing and download invoices."),
             Faq("Invoices & charges", "Invoices are generated monthly and emailed to the account owner.")>>
      [] t = "security" ->
           <<Faq("Authentication", "We support SSO and MFA. Enable MFA for higher security."),
             Faq("Access control", "Use granular role-based access control (RBAC) to restrict permissions.")>>
      [] t = "api" ->
           <<Faq("API keys", "Generate and manage API keys from Settings > API."),
             Faq("Rate limits", "API rate limiting is enforced at 60 requests per minute.")>>
      [] t = "troubleshooting" ->
           <<Faq("Common fixes", "Clear cache and re-authenticate if something looks off."),
             Faq("Contact support", "Provide your request ID to support for detailed investigation.")>>
      [] t = "default" ->
           <<Faq("General help", "Ask about getting started, account & billing, security, API & integrations, or troubleshooting.")>>]

\* keepMessage keeping the context notes whether or not a topic is active
keepMessageAnyTopic(m, q, topic) ==
  LET isContextNote ==
        m.role = "system" /\ includes(toLowerCase(m.content), "context updated to topic")
  IN IF isContextNote THEN TRUE
     ELSE includes(toLowerCase(m.content), q)

\* the predicate of the filter of computeFilteredHistory
keepMessage(m, q, topic) ==
  LET isContextNote ==
        m.role = "system" /\ includes(toLowerCase(m.content), "context updated to topic")
  IN IF truthy(topic) /\ isContextNote THEN TRUE
     ELSE includes(toLowerCase(m.content), q)

\* Array.prototype.filter over the messages from entry i on
RECURSIVE filterMessages(_, _, _, _)
filterMessages(msgs, i, q, topic) ==
  IF i > Len(msgs) THEN <<>>
  ELSE (IF keepMessage(msgs[i], q, topic) THEN <<msgs[i]>> ELSE <<>>)
         \o filterMessages(msgs, i + 1, q, topic)

\* buildFilterDataset copies the transcript
computeFilteredHistory(query, msgs, topic) ==
  filterMessages(msgs, 1, toLowerCase(query), topic)

\* the predicate of the filter of computeFilteredFaqs
keepFaq(f, q) == includes(toLowerCase(f.title), q) \/ includes(toLowerCase(f.content), q)

RECURSIVE filterFaqs(_, _, _)
filterFaqs(faqs, i, q) ==
  IF i > Len(faqs) THEN <<>>
  ELSE (IF keepFaq(faqs[i], q) THEN <<faqs[i]>> ELSE <<>>) \o filterFaqs(faqs, i + 1, q)

\* const topicKey = this.activeTopic && this.faqCatalog[this.activeTopic]
\*   ? this.activeTopic : 'default'
faqTopicKey(topic) ==
  IF truthy(topic) /\ hasProperty(faqCatalog, topic) THEN topic ELSE "default"

\* faqs.filter throws a TypeError where faqs is an inherited property of the
\* catalog, which is no array
faqsThrow(topic) == faqTopicKey(topic) \notin DOMAIN faqCatalog

\* computeFilteredFaqs, where it does not throw
computeFilteredFaqs(query, topic) ==
  filterFaqs(faqCatalog[faqTopicKey(topic)], 1, toLowerCase(query))

(***************************************************************************)
(* State                                                                   *)
(***************************************************************************)
VARIABLES
  input,            \* ChatboxComponent.input
  sending,          \* ChatboxComponent.sending, the busy flag
  messages,         \* ChatboxComponent.messages, the transcript
  activeTopic,      \* ChatboxComponent.activeTopic
  filterFeedback,   \* ChatboxComponent.filterFeedback
  filterMatches,    \* ChatboxComponent.filterMatches
  filteredMessages, \* ChatboxComponent.filteredMessages
  filteredFaqs,     \* ChatboxComponent.filteredFaqs
  lastQuery,        \* ChatboxComponent.lastQuery
  topicSubject,     \* TopicsBridgeService.topicSubject, its current value
  subscribers,      \* the subscribers of topic$ besides the chat panel: for each,
                    \* the values its callback was called with, in order
  lastSet,          \* history: the argument of the last setTopic, NeverSet if none
  active,           \* SidebarTopicsComponent.active
  calls,            \* the calls of RagService.ask that have not settled, oldest first
  direct,           \* a call of RagService.ask by a caller other than the chat
                    \* panel: question, topic, position and answer; NoCall if none
  hasTimer,         \* whether globalThis.setTimeout exists (read by delay)
  timers,           \* the number of timer callbacks that are scheduled
  op,               \* history: the handler that ran last
  arg               \* history: the input text the last send() read, else Null

view == <<filterMatches, filteredMessages, filteredFaqs, lastQuery>>
chat == <<input, sending, messages, activeTopic, filterFeedback, view>>
env == <<hasTimer, timers>>
bridge == <<topicSubject, subscribers, lastSet>>
vars == <<chat, bridge, active, calls, direct, env, op, arg>>

\* the raw texts the user types in the runs of Spec
TypedInputs ==
  {" \t ", "<b>Topic  key", "Curse you", "a <curse>", "key"}

\* the sidebar topics the user clicks in the runs of Spec
ClickedTopics == {"api", "getting-started"}

\* the pieces the raw texts of InputSpec are made of
Fragments == {" ", "\t", "<", ">", "cur", "se", "Curse", "badword", "OFFENSIVE"}

RECURSIVE Concats(_)
Concats(n) ==
  IF n = 0 THEN {""}
  ELSE Concats(n - 1) \cup {s \o f : s \in Concats(n - 1), f \in Fragments}

RawInputs == Concats(MaxFrags)

(***************************************************************************)
(* ChatboxComponent: handlers                                              *)
(***************************************************************************)
\* resetFilterView without the reset of lastQuery
resetKeepsQuery == <<FALSE, <<>>, <<>>, lastQuery>>

\* resetFilterView: the values of filterMatches, filteredMessages,
\* filteredFaqs and lastQuery after it
resetFilterView == <<FALSE, <<>>, <<>>, "">>

\* the filter view computed for a query over a transcript
computedView(query, msgs, topic) ==
  <<TRUE, computeFilteredHistory(query, msgs, topic), computeFilteredFaqs(query, topic), query>>

\* the four fields of the filter view take the values v
SetView(v) ==
  /\ filterMatches' = v[1]
  /\ filteredMessages' = v[2]
  /\ filteredFaqs' = v[3]
  /\ lastQuery' = v[4]

\* TopicsNext assigning the transcript instead of pushing to it
TopicsNextReplacing(topic) ==
  /\ activeTopic' = topic
  /\ SetView(resetFilterView)
  /\ messages' = IF truthy(topic) THEN <<contextNote(topic)>> ELSE messages
  /\ UNCHANGED <<input, sending, filterFeedback>>

\* TopicsNext without its call of resetFilterView
TopicsNextNoReset(topic) ==
  /\ activeTopic' = topic
  /\ messages' = IF truthy(topic) THEN Append(messages, contextNote(topic)) ELSE messages
  /\ UNCHANGED <<input, sending, filterFeedback, view>>

\* TopicsNext pushing its note only when the topic differs from the active one
TopicsNextDistinct(topic) ==
  /\ activeTopic' = topic
  /\ SetView(resetFilterView)
  /\ messages' = IF truthy(topic) /\ topic # activeTopic
                    THEN Append(messages, contextNote(topic)) ELSE messages
  /\ UNCHANGED <<input, sending, filterFeedback>>

\* the callback the constructor subscribes to topic$, called with topic
TopicsNext(topic) ==
  /\ activeTopic' = topic
  /\ SetView(resetFilterView)
  /\ messages' = IF truthy(topic) THEN Append(messages, contextNote(topic)) ELSE messages
  /\ UNCHANGED <<input, sending, filterFeedback>>

\* the state after construction: the subscription delivers the value the
\* bridge holds to the callback at once
Constructed ==
  /\ sending = FALSE
  /\ messages = <<SeedMessage, contextNote(InitialTopic)>>
  /\ activeTopic = InitialTopic
  /\ filterFeedback = Null
  /\ filterMatches = FALSE
  /\ filteredMessages = <<>>
  /\ filteredFaqs = <<>>
  /\ lastQuery = ""
  /\ topicSubject = InitialTopic
  /\ subscribers = <<>>
  /\ lastSet = NeverSet
  /\ active = "getting-started"
  /\ calls = <<>>
  /\ hasTimer \in BOOLEAN
  /\ timers = 0
  /\ op = "init"
  /\ arg = Null

Init == input = "" /\ Constructed /\ direct = NoCall

\* the user edits the text field (ngModel)
Type(raw) ==
  /\ raw # input
  /\ input' = raw
  /\ op' = "type"
  /\ arg' = Null
  /\ UNCHANGED <<sending, messages, activeTopic, filterFeedback, view,
                 bridge, active, calls, direct, env>>

\* pushed without the user message
pushedNothing(cleaned, feedback) == <<>>

\* the messages an accepted send() pushes before it calls the service
pushed(cleaned, feedback) ==
  <<Msg("user", cleaned)>> \o
    (IF truthy(feedback) /\ includes(toLowerCase(feedback), "masked")
       THEN <<Msg("system", "Note: Certain words were masked for safety.")>>
       ELSE <<>>)

\* delay(ms): the number of timer callbacks the call schedules; its promise
\* resolves when the callback runs, and the fallback used where
\* globalThis.setTimeout is missing schedules nothing
delay == IF hasTimer THEN 1 ELSE 0

\* the call of RagService.ask an accepted send() makes: ask awaits
\* retrieveFromChroma, which awaits delay(200)
askCall(question, topic) ==
  [question |-> question, topic |-> topic, pc |-> "retrieve", answer |-> Null]

\* send() without the test of the busy flag
SendBusyUnguarded ==
  LET r == filterInput(input)
  IN /\ sending
     /\ truthy(r.cleaned)
     /\ Len(messages) + 3 <= MaxMsgs
     /\ messages' = messages \o pushed(r.cleaned, r.feedback)
     /\ input' = ""
     /\ calls' = Append(calls, askCall(r.cleaned, activeTopic))
     /\ op' = "send_busy"
     /\ arg' = input
     /\ timers' = timers + delay
     /\ UNCHANGED <<sending, activeTopic, filterFeedback, view, bridge, active, direct, hasTimer>>

\* send() while a submit is in flight: line 159
SendBusy ==
  /\ sending
  /\ op' = "send_busy"
  /\ arg' = input
  /\ UNCHANGED <<chat, bridge, active, calls, direct, env>>

\* send() with an input that filterInput does not accept: lines 161-165
SendRejected ==
  /\ ~sending
  /\ ~truthy(filterInput(input).cleaned)
  /\ filterFeedback' = EmptyFeedback
  /\ op' = "send_rejected"
  /\ arg' = input
  /\ UNCHANGED <<input, sending, messages, activeTopic, view,
                 bridge, active, calls, direct, env>>

\* send() with an accepted input where computeFilteredFaqs throws: lines
\* 161-170; send() ends there and its promise rejects
SendThrows ==
  LET r == filterInput(input)
  IN /\ ~sending
     /\ truthy(r.cleaned)
     /\ faqsThrow(activeTopic)
     /\ filterFeedback' = r.feedback
     /\ lastQuery' = r.cleaned
     /\ op' = "send_throws"
     /\ arg' = input
     /\ UNCHANGED <<input, sending, messages, activeTopic, filterMatches,
                    filteredMessages, filteredFaqs, bridge, active, calls, direct, env>>

\* send() with an accepted input, up to its await: lines 161-185
SendAccepted ==
  LET r == filterInput(input)
  IN /\ ~sending
     /\ truthy(r.cleaned)
     /\ ~faqsThrow(activeTopic)
     /\ Len(messages) + 3 <= MaxMsgs
     /\ filterFeedback' = r.feedback
     /\ SetView(computedView(r.cleaned, messages, activeTopic))
     /\ sending' = TRUE
     /\ messages' = messages \o pushed(r.cleaned, r.feedback)
     /\ input' = ""
     /\ calls' = Append(calls, askCall(r.cleaned, activeTopic))
     /\ op' = "send_accepted"
     /\ arg' = input
     /\ timers' = timers + delay
     /\ UNCHANGED <<activeTopic, bridge, active, direct, hasTimer>>

\* reevaluated without the recomputation
reevaluatedStale(msgs) == view

\* the filter view after the response or the error message is pushed:
\* lines 189-193 and 201-205
reevaluated(msgs) ==
  IF truthy(lastQuery) THEN computedView(lastQuery, msgs, activeTopic) ELSE view

\* the rest of send() once the awaited call has settled with message m
\* (the response, or errMsg in the catch block), and the finally block
Settled(m) ==
  /\ messages' = Append(messages, m)
  /\ SetView(reevaluated(Append(messages, m)))
  /\ sending' = FALSE
  /\ calls' = Tail(calls)
  /\ arg' = Null
  /\ UNCHANGED <<input, activeTopic, filterFeedback, bridge, active, direct, hasTimer>>

\* TimerRetrieve reading the topic of the component when the timer fires
TimerRetrieveLateTopic ==
  /\ timers > 0
  /\ calls # <<>>
  /\ calls[1].pc = "retrieve"
  /\ ~retrieveThrows(activeTopic)
  /\ calls' = <<[calls[1] EXCEPT
                   !.pc = "latency",
                   !.answer = askResult(calls[1].question, activeTopic).content]>>
                 \o Tail(calls)
  /\ timers' = timers - 1 + delay
  /\ op' = "timer_retrieve"
  /\ arg' = Null
  /\ UNCHANGED <<chat, bridge, active, direct, hasTimer>>

\* the timer of delay(200) fires: retrieveFromChroma returns, ask selects the
\* tool, synthesizes the answer and awaits delay(450 + Math.random() * 300)
TimerRetrieve ==
  /\ timers > 0
  /\ calls # <<>>
  /\ calls[1].pc = "retrieve"
  /\ ~retrieveThrows(calls[1].topic)
  /\ calls' = <<[calls[1] EXCEPT
                   !.pc = "latency",
                   !.answer = askResult(calls[1].question, calls[1].topic).content]>>
                 \o Tail(calls)
  /\ timers' = timers - 1 + delay
  /\ op' = "timer_retrieve"
  /\ arg' = Null
  /\ UNCHANGED <<chat, bridge, active, direct, hasTimer>>

\* the timer of the second delay fires: ask resolves and send() resumes in
\* its try block, lines 186-193 and 207-208
TimerAnswer ==
  /\ timers > 0
  /\ calls # <<>>
  /\ calls[1].pc = "latency"
  /\ Settled(Msg("assistant", calls[1].answer))
  /\ timers' = timers - 1
  /\ op' = "settle_ok"

\* the awaited call rejects, as a service put in the place of the mock can
\* (the mock rejects only where retrieveFromChroma throws): the catch block,
\* lines 194-206, and finally; the call awaits no timer any more
AskRejects ==
  /\ calls # <<>>
  /\ Settled(errMsg)
  /\ timers' = 0
  /\ op' = "settle_err"

\* clear() resetting the busy flag too
ClearResetsBusy ==
  /\ messages' = <<ClearedMessage>>
  /\ filterFeedback' = Null
  /\ SetView(resetFilterView)
  /\ sending' = FALSE
  /\ op' = "clear"
  /\ arg' = Null
  /\ UNCHANGED <<input, activeTopic, bridge, active, calls, direct, env>>

\* clear(): lines 228-234
Clear ==
  /\ messages' = <<ClearedMessage>>
  /\ filterFeedback' = Null
  /\ SetView(resetFilterView)
  /\ op' = "clear"
  /\ arg' = Null
  /\ UNCHANGED <<input, sending, activeTopic, bridge, active, calls, direct, env>>

\* TopicsBridgeService.setTopic, BehaviorSubject.next: the subject takes the
\* value and calls every subscriber with it, the chat panel first
setTopic(topic) ==
  /\ topicSubject' = topic
  /\ lastSet' = topic
  /\ TopicsNext(topic)
  /\ subscribers' = [i \in DOMAIN subscribers |-> Append(subscribers[i], topic)]

\* selectTopic without its emit
selectTopicNoEmit(id) ==
  /\ Len(messages) + (IF sending THEN 1 ELSE 0) < MaxMsgs
  /\ active' = id
  /\ op' = "topic"
  /\ arg' = Null
  /\ UNCHANGED <<chat, bridge, calls, direct, env>>

\* SidebarTopicsComponent.selectTopic, emitting to AppComponent.onTopicSelected
selectTopic(id) ==
  /\ Len(messages) + (IF sending THEN 1 ELSE 0) < MaxMsgs
  /\ active' = id
  /\ setTopic(id)
  /\ op' = "topic"
  /\ arg' = Null
  /\ UNCHANGED <<calls, direct, env>>

Next ==
  \/ \E raw \in TypedInputs : Type(raw)
  \/ SendBusy
  \/ SendRejected
  \/ SendAccepted
  \/ TimerRetrieve
  \/ TimerAnswer
  \/ AskRejects
  \/ Clear
  \/ \E id \in ClickedTopics : selectTopic(id)

Spec == Init /\ [][Next]_vars

(***************************************************************************)
(* One submit cycle for every raw input of the bounded set                 *)
(***************************************************************************)
InitInput == input \in RawInputs /\ Constructed /\ direct = NoCall

NextInput ==
  \/ SendBusy
  \/ SendRejected
  \/ SendAccepted
  \/ TimerRetrieve
  \/ TimerAnswer
  \/ AskRejects

InputSpec == InitInput /\ [][NextInput]_vars

(***************************************************************************)
(* The topic bridge with further subscribers and direct calls of setTopic  *)
(***************************************************************************)
\* the values setTopic is called with in the runs of BridgeSpec
PublishedTopics == {Null, "", "unknown-id", "api", "getting-started"}

\* subscribed for a plain Subject, which holds no value
subscribedPlain == <<>>

\* the values topic$.subscribe(callback) calls the callback with at once: a
\* BehaviorSubject delivers the value it holds
subscribed == <<topicSubject>>

\* a component subscribes to topic$
Subscribe ==
  /\ Len(subscribers) < MaxSubs
  /\ subscribers' = Append(subscribers, subscribed)
  /\ op' = "subscribe"
  /\ arg' = Null
  /\ UNCHANGED <<chat, topicSubject, lastSet, active, calls, direct, env>>

\* a component calls TopicsBridgeService.setTopic
PublishTopic(topic) ==
  /\ Len(messages) < MaxMsgs
  /\ \A i \in DOMAIN subscribers : Len(subscribers[i]) < MaxLog
  /\ setTopic(topic)
  /\ op' = "set_topic"
  /\ arg' = Null
  /\ UNCHANGED <<active, calls, direct, env>>

NextBridge ==
  \/ \E topic \in PublishedTopics : PublishTopic(topic)
  \/ \E id \in ClickedTopics : selectTopic(id)
  \/ Subscribe

BridgeSpec == Init /\ [][NextBridge]_vars

(***************************************************************************)
(* One submit cycle with and without an active topic                       *)
(***************************************************************************)
\* the texts typed in the runs of FilterSpec
FilterQueries == {"started", "zzz", "TOPIC", "Curse you"}

\* the values setTopic is called with in the runs of FilterSpec
FilterTopics == {Null, "api", "unknown-id", "constructor"}

InitFilter == input \in FilterQueries /\ Constructed /\ direct = NoCall

NextFilter ==
  \/ \E topic \in FilterTopics : PublishTopic(topic)
  \/ Clear
  \/ SendThrows
  \/ SendAccepted
  \/ TimerRetrieve
  \/ TimerAnswer
  \/ AskRejects

FilterSpec == InitFilter /\ [][NextFilter]_vars

(***************************************************************************)
(* RagService.ask called directly, for every question and topic of the     *)
(* bounded sets                                                            *)
(***************************************************************************)
Questions ==
  {"", "key", " key", "My API Key", "billing key", "Rate my invoice",
   "reset MFA Error", "sso", "an issue with a token", "hello there",
   "Troubleshoot it",
   "Use  it", "What are the rate limits?"}

\* the topics of the options; Null: no topic is given
AskTopics == {Null, "", "unknown-id", "constructor", "api", "account"}

InitAsk ==
  /\ input = ""
  /\ Constructed
  /\ direct \in {DirectCall(q, t) : q \in Questions, t \in AskTopics}

\* the caller calls ask(question, {topic}): ask calls retrieveFromChroma,
\* which awaits delay(200)
Ask ==
  /\ direct.pc = "idle"
  /\ direct' = [direct EXCEPT !.pc = "retrieve"]
  /\ timers' = timers + delay
  /\ op' = "ask"
  /\ arg' = Null
  /\ UNCHANGED <<chat, bridge, active, calls, hasTimer>>

\* the timer of delay(200) fires: retrieveFromChroma throws and ask rejects,
\* or it returns and ask selects the tool, synthesizes the answer and
\* awaits delay(450 + Math.random() * 300)
AskRetrieved ==
  /\ timers > 0
  /\ direct.pc = "retrieve"
  /\ IF retrieveThrows(direct.topic)
       THEN /\ direct' = [direct EXCEPT !.pc = "rejected"]
            /\ timers' = timers - 1
       ELSE LET docs == retrieveFromChroma(direct.question, direct.topic)
                tool == selectMcpTool(direct.question)
            IN /\ direct' = [direct EXCEPT
                               !.pc = "latency",
                               !.docs = docs,
                               !.tool = tool,
                               !.answer = synthesizeAnswer(direct.question, docs, tool)]
               /\ timers' = timers - 1 + delay
  /\ op' = "ask_retrieved"
  /\ arg' = Null
  /\ UNCHANGED <<chat, bridge, active, calls, hasTimer>>

\* the timer of the second delay fires: ask resolves with the message
\* {role: 'assistant', content: answer}
AskAnswered ==
  /\ timers > 0
  /\ direct.pc = "latency"
  /\ direct' = [direct EXCEPT !.pc = "resolved"]
  /\ timers' = timers - 1
  /\ op' = "ask_resolved"
  /\ arg' = Null
  /\ UNCHANGED <<chat, bridge, active, calls, hasTimer>>

NextAsk ==
  \/ Ask
  \/ AskRetrieved
  \/ AskAnswered

AskSpec == InitAsk /\ [][NextAsk]_vars

(***************************************************************************)
(* Properties                                                              *)
(***************************************************************************)
IsPrefix(a, b) == Len(a) <= Len(b) /\ SubSeq(b, 1, Len(a)) = a

\* the handlers that are a call of send()
SendOps == {"send_busy", "send_rejected", "send_accepted", "send_throws"}

\* the handlers that settle the awaited call
SettleOps == {"settle_ok", "settle_err"}

\* every character of s is whitespace
IsBlank(s) == \A i \in 1..Len(s) : IsSpace(CharAt(s, i))

\* s[i..j] is a banned word in some letter case, with no word character
\* next to it
IsBannedWordAt(s, i, j) ==
  /\ \E k \in 1..Len(banned) :
       Len(banned[k]) = j - i + 1 /\ toLowerCase(SubSeq(s, i, j)) = banned[k]
  /\ (i = 1 \/ ~IsWordChar(CharAt(s, i - 1)))
  /\ (j = Len(s) \/ ~IsWordChar(CharAt(s, j + 1)))

HasBannedWord(s) == \E i \in 1..Len(s) : \E j \in i..Len(s) : IsBannedWordAt(s, i, j)

\* s with each whole banned word replaced by the mask token, position by
\* position: the first character of a banned word gives the token, its
\* other characters give nothing, every other character gives itself
RECURSIVE MaskedPieces(_, _)
MaskedPieces(s, p) ==
  IF p > Len(s) THEN ""
  ELSE (IF \E j \in p..Len(s) : IsBannedWordAt(s, p, j) THEN "****"
        ELSE IF \E i \in 1..p : \E j \in p..Len(s) : IsBannedWordAt(s, i, j) THEN ""
        ELSE CharAt(s, p))
       \o MaskedPieces(s, p + 1)

\* C1: while a submit is in flight, a further send() changes nothing of the
\* chat panel (transcript, input, feedback, filter view, busy flag) and
\* issues no call to the service, whatever the input text is.
C1_BusySendIsNoOp ==
  [][(sending /\ op' \in SendOps) =>
       (op' = "send_busy" /\ UNCHANGED <<chat, calls>>)]_vars

\* a send() made while the call is pending, with a text that would be accepted
C1_Witness ==
  /\ op = "send_busy"
  /\ sending
  /\ Len(calls) = 1
  /\ truthy(filterInput(arg).cleaned)

\* a step pushes an assistant message to the transcript
PushesAssistant ==
  /\ IsPrefix(messages, messages')
  /\ \E i \in (Len(messages) + 1)..Len(messages') : messages'[i].role = "assistant"

\* C2: the step that issues the call of ask() has pushed the user message
\* with the question of the call, and an assistant message (the answer or
\* the error message of the call) is pushed only by the step in which the
\* pending call settles, never while the call stays pending.
C2_OrderOfSubmitCycle ==
  [][/\ (Len(calls') > Len(calls)) =>
          /\ calls' = Append(calls, calls'[Len(calls')])
          /\ IsPrefix(messages, messages')
          /\ Len(messages') > Len(messages)
          /\ messages'[Len(messages) + 1] = Msg("user", calls'[Len(calls')].question)
     /\ PushesAssistant =>
          /\ calls # <<>>
          /\ calls' = Tail(calls)
          /\ \/ /\ calls[1].pc = "latency"
                /\ messages' = Append(messages,
                     Msg("assistant", askResult(calls[1].question, calls[1].topic).content))
             \/ messages' = Append(messages, errMsg)]_vars

\* a settled submit: the user message, then the answer
C2_Witness ==
  /\ op = "settle_ok"
  /\ Len(messages) >= 2
  /\ messages[Len(messages) - 1].role = "user"
  /\ messages[Len(messages)].role = "assistant"
  /\ ~messages[Len(messages)].error

\* C3: every accepted submit eventually clears the busy flag.  A timer
\* callback that is scheduled runs, and the call settles by the callbacks of
\* its two delays, so the flag is cleared in the end exactly if, whenever the
\* panel is busy, a timer callback is scheduled for the pending call.
C3_BusyAwaitsTimer == sending => timers > 0

\* C3 where globalThis.setTimeout exists
C3_BusyAwaitsTimerWhereTimersExist == (sending /\ hasTimer) => timers > 0

\* C4: the busy flag is set exactly when one call of the service is pending,
\* at most one call is ever pending, and only the settlement of the call
\* clears the flag or removes the call: clear(), a topic change, typing and a
\* send() that is rejected or ignored leave both as they are.
C4_BusyIffOneCall ==
  /\ [](Len(calls) <= 1 /\ (sending <=> Len(calls) = 1))
  /\ [][/\ (sending /\ ~sending') => op' \in SettleOps
        /\ (calls # <<>> /\ op' \notin SettleOps) =>
             /\ Len(calls') = Len(calls)
             /\ calls'[1].question = calls[1].question
             /\ calls'[1].topic = calls[1].topic
        /\ op' \in {"clear", "topic", "type", "send_rejected", "send_busy"} =>
             UNCHANGED <<sending, calls>>]_vars

\* clear() called while the call is pending
C4_Witness ==
  /\ op = "clear"
  /\ sending
  /\ Len(calls) = 1

\* C5: when the awaited call rejects, send() pushes exactly the message
\* (assistant, 'Sorry, something went wrong while fetching the answer.',
\* error true), changes nothing else of the transcript, and completes: the
\* busy flag is cleared and the call is no longer pending.
C5_RejectionPushesErrorMessage ==
  [][op' = "settle_err" =>
       /\ messages' = Append(messages,
            [role |-> "assistant",
             content |-> "Sorry, something went wrong while fetching the answer.",
             error |-> TRUE])
       /\ ~sending'
       /\ calls' = <<>>]_vars

\* a rejected call after an accepted submit
C5_Witness ==
  /\ op = "settle_err"
  /\ Len(messages) >= 2
  /\ messages[Len(messages)].error
  /\ messages[Len(messages) - 1].role \in {"user", "system"}

\* C6: for a raw input that is empty or only whitespace, filterInput gives
\* no cleaned text, and send() pushes nothing, leaves the busy flag and the
\* pending calls as they are and, unless a submit is in flight, sets the
\* feedback 'Please enter a question before sending.'.
C6_BlankInputRejected ==
  [][(op' \in SendOps /\ IsBlank(input)) =>
       /\ filterInput(input).cleaned = Null
       /\ op' # "send_accepted"
       /\ UNCHANGED <<messages, sending, calls>>
       /\ ~sending =>
            /\ op' = "send_rejected"
            /\ filterFeedback' = "Please enter a question before sending."]_vars

\* a send() of a non-empty input of whitespace only
C6_Witness ==
  /\ op = "send_rejected"
  /\ Len(arg) >= 2
  /\ IsBlank(arg)
  /\ filterFeedback = EmptyFeedback
  /\ calls = <<>>

\* C7: every handler other than clear() leaves the transcript it found as a
\* prefix of the transcript it leaves.
C7_TranscriptAppendOnly ==
  [][op' # "clear" => IsPrefix(messages, messages')]_vars

\* a topic change while a call is pending, after pushes
C7_Witness ==
  /\ op = "topic"
  /\ sending
  /\ Len(messages) >= 4

\* C8: after clear() the transcript is the one assistant message of
\* clear(), the filter view is reset (flag false, both filtered lists empty,
\* last query empty) and the feedback is null.
C8_ClearResets ==
  op = "clear" =>
    /\ messages = <<[role |-> "assistant",
                     content |-> "Chat cleared. How can I help you next?",
                     error |-> FALSE]>>
    /\ filterMatches = FALSE
    /\ filteredMessages = <<>>
    /\ filteredFaqs = <<>>
    /\ lastQuery = ""
    /\ filterFeedback = Null

\* clear() called while a call is pending and a text is typed
C8_Witness ==
  /\ op = "clear"
  /\ calls # <<>>
  /\ calls[1].pc = "latency"
  /\ input # ""
  /\ lastQuery = ""

\* C9: the cleaned text of an accepted input contains neither '<' nor '>'.
C9_CleanedHasNoAngle ==
  op = "send_accepted" =>
    /\ ~includes(lastQuery, "<")
    /\ ~includes(lastQuery, ">")
    /\ ~includes(calls[1].question, "<")
    /\ ~includes(calls[1].question, ">")

\* C10: for an input with a banned word as a whole word in any letter case,
\* filterInput gives the text with every such word replaced by '****' and
\* the feedback 'Note: Certain words were masked for safety.', and send()
\* accepts it: the feedback is shown, the masked text is pushed as the user
\* message and is the question of the call of the service.
C10_BannedWordsMasked ==
  [][(op' \in SendOps /\ ~sending /\ HasBannedWord(input)) =>
       LET e == MaskedPieces(normalize(input), 1)
       IN /\ filterInput(input).cleaned = e
          /\ filterInput(input).feedback = "Note: Certain words were masked for safety."
          /\ ~HasBannedWord(e)
          /\ includes(e, "****")
          /\ op' = "send_accepted"
          /\ filterFeedback' = "Note: Certain words were masked for safety."
          /\ IsPrefix(messages, messages')
          /\ messages'[Len(messages) + 1] = Msg("user", e)
          /\ sending'
          /\ Len(calls') = 1
          /\ calls'[1].question = e]_vars

\* an accepted input with two banned words in different letter cases
C10_Witness ==
  /\ op = "send_accepted"
  /\ HasBannedWord(arg)
  /\ includes(arg, "Curse")
  /\ includes(arg, "badword")
  /\ lastQuery = "**** ****"
  /\ calls[1].question = "**** ****"

\* the filter view is the one computed for the query q over the transcript,
\* all taken after the step
RecomputedFor(q) ==
  /\ filterMatches'
  /\ lastQuery' = q
  /\ filteredMessages' = computeFilteredHistory(q, messages', activeTopic')
  /\ filteredFaqs' = computeFilteredFaqs(q, activeTopic')

\* C11 as claimed: whenever an accepted submit settles, with the answer or
\* with the error message, the filter view is recomputed with the query of
\* that submit over the final transcript, whatever topic changes and calls
\* of clear() came while the call was pending.
C11_SettleRecomputesAlways ==
  [][op' \in SettleOps => RecomputedFor(calls[1].question)]_vars

\* C11 as amended: while a call is pending the last query is the query of
\* its submit until a topic change or clear() empties it, and it stays
\* empty; at settlement the filter view is recomputed with that query over
\* the final transcript if the last query still is that query, and is left
\* as the reset left it (flag false, lists empty, query empty) otherwise.
C11_SettleRecomputesUnlessReset ==
  /\ [](calls # <<>> => lastQuery \in {calls[1].question, ""})
  /\ [][/\ (calls # <<>> /\ op' \notin SettleOps) =>
             lastQuery' = IF op' \in {"topic", "clear"} THEN "" ELSE lastQuery
        /\ op' \in SettleOps =>
             IF lastQuery = calls[1].question
               THEN RecomputedFor(calls[1].question)
               ELSE /\ view = resetFilterView
                    /\ UNCHANGED view]_vars

\* a settlement whose answer matches the query and enters the filtered
\* transcript
C11_Witness ==
  /\ op = "settle_ok"
  /\ filterMatches
  /\ lastQuery = "key"
  /\ Len(filteredMessages) >= 2
  /\ filteredMessages[Len(filteredMessages)] = messages[Len(messages)]
  /\ messages[Len(messages)].role = "assistant"


\* C12: every topic change delivered to the chat panel leaves the filter
\* view reset: the flag false, the filtered transcript and the filtered FAQ
\* list empty and the last query empty, whatever the filter view was before
\* and whether or not a call is pending.
C12_TopicChangeResetsView ==
  [][op' = "topic" =>
       /\ filterMatches' = FALSE
       /\ filteredMessages' = <<>>
       /\ filteredFaqs' = <<>>
       /\ lastQuery' = ""]_vars

\* a topic change while the call of an accepted submit is pending
C12_Witness ==
  /\ op = "topic"
  /\ activeTopic = "api"
  /\ calls # <<>>
  /\ calls[1].question = "key"
  /\ calls[1].topic = "getting-started"
  /\ messages[Len(messages)] = contextNote("api")
  /\ lastQuery = ""
  /\ ~filterMatches


\* C13: a subscriber created after any sequence of calls of setTopic is
\* called at subscription with exactly one value, the argument of the most
\* recent setTopic, or 'getting-started' if there was none; no earlier value
\* is delivered to it, then or later: afterwards it receives the argument
\* of each further setTopic, once.
C13_NewSubscriberGetsLatest ==
  [][/\ op' = "subscribe" =>
          /\ Len(subscribers') = Len(subscribers) + 1
          /\ subscribers'[Len(subscribers')] =
                <<IF lastSet = NeverSet THEN "getting-started" ELSE lastSet>>
          /\ \A i \in DOMAIN subscribers : subscribers'[i] = subscribers[i]
     /\ op' = "set_topic" =>
          /\ Len(subscribers') = Len(subscribers)
          /\ \A i \in DOMAIN subscribers :
               subscribers'[i] = Append(subscribers[i], lastSet')]_vars

\* a second subscriber created after the first one has seen three values
C13_Witness ==
  /\ op = "subscribe"
  /\ Len(subscribers) = 2
  /\ Len(subscribers[1]) = 3
  /\ subscribers[1][1] # subscribers[1][3]
  /\ subscribers[1][2] # subscribers[1][3]
  /\ subscribers[2] = <<subscribers[1][3]>>
  /\ lastSet = Null


\* C14: in every reachable state the active topic of the chat panel is the
\* value the bridge holds, and that value is the id selected last in the
\* sidebar, 'getting-started' before any selection; a selection brings all
\* three to the selected id in one step.
C14_PanelFollowsSidebar ==
  /\ [](activeTopic = topicSubject /\ topicSubject = active)
  /\ [](lastSet = NeverSet => active = "getting-started")
  /\ [](lastSet # NeverSet => active = lastSet)

\* a selection that replaces an earlier, different one
C14_Witness ==
  /\ op = "topic"
  /\ Len(messages) >= 3
  /\ messages[Len(messages) - 1] = contextNote("api")
  /\ messages[Len(messages)] = contextNote("getting-started")
  /\ active = "getting-started"
  /\ activeTopic = "getting-started"
  /\ lastSet = "getting-started"


\* the topics with an entry in the knowledge table
KnowledgeTopics ==
  {"getting-started", "account", "security", "api", "troubleshooting", "default"}

\* the direct call has settled
DirectSettled == direct.pc \in {"resolved", "rejected"}

\* C15: for every question, ask(question, {topic: t}) with a topic t that
\* has no entry in the knowledge table returns the assistant message that
\* ask(question, {}) returns, the answer made from the 'default' bucket.
C15_UnknownTopicAsDefault ==
  (DirectSettled /\ direct.topic \notin KnowledgeTopics) =>
    /\ direct.pc = "resolved"
    /\ direct.answer = askResult(direct.question, Null).content

\* C15 for the topics that name no property of Object.prototype either
C15_UnknownTopicAsDefaultUnlessInherited ==
  (DirectSettled /\ direct.topic \notin KnowledgeTopics \cup ObjectPrototypeKeys) =>
    /\ direct.pc = "resolved"
    /\ direct.answer = askResult(direct.question, Null).content
    /\ \A i \in 1..Len(direct.docs) : direct.docs[i] \in
          {"I can help with getting started, account & billing, security, API & integrations, and troubleshooting.",
           "Please ask a question or select a topic."}


\* s contains one of the words in some letter case
HasWord(words, s) ==
  \E w \in words : \E i \in 1..Len(s) :
    i + Len(w) - 1 <= Len(s) /\ toLowerCase(SubSeq(s, i, i + Len(w) - 1)) = w

\* C16 as claimed: for every question containing 'key', the content of the
\* response of ask(question, {topic: 'api'}) contains the tool label
\* 'api.docs.search'.
C16_KeyGivesApiDocsSearch ==
  (direct.pc = "resolved" /\ direct.topic = "api" /\ includes(direct.question, "key")) =>
    includes(direct.answer, "api.docs.search")

\* C16 as amended: for every question containing 'key' and none of
\* 'billing', 'invoice', 'payment' in any letter case, the content of the
\* response of ask(question, {topic: 'api'}) contains the tool label
\* 'api.docs.search'.
C16_KeyWithoutBillingGivesApiDocsSearch ==
  (/\ direct.pc = "resolved"
   /\ direct.topic = "api"
   /\ includes(direct.question, "key")
   /\ ~HasWord({"billing", "invoice", "payment"}, direct.question)) =>
    includes(direct.answer, "api.docs.search")

\* the response to a question that contains 'key' and no other keyword
C16_Witness ==
  /\ direct.pc = "resolved"
  /\ direct.topic = "api"
  /\ direct.question = " key"
  /\ includes(direct.answer, "Here's what I found using api.docs.search:")


\* C17: every call of delay resolves in the end, also where there is no
\* timer function, so every call of ask settles.  A timer callback that is
\* scheduled runs, and the promise of delay resolves by that callback only,
\* so the call settles in the end exactly if, whenever ask awaits a delay,
\* a timer callback is scheduled.
C17_DelaySchedulesTimer ==
  direct.pc \in {"retrieve", "latency"} => timers > 0

\* C17 where globalThis.setTimeout exists
C17_DelaySchedulesTimerWhereTimersExist ==
  (direct.pc \in {"retrieve", "latency"} /\ hasTimer) => timers > 0


\* the rules of tool selection in their order
ToolRules ==
  <<[words |-> {"billing", "invoice", "payment"}, label |-> "billing.lookup"],
    [words |-> {"api", "key", "token", "rate"}, label |-> "api.docs.search"],
    [words |-> {"security", "mfa", "sso", "rbac"}, label |-> "security.policy.fetch"],
    [words |-> {"troubleshoot", "error", "issue"}, label |-> "diagnostics.helper"]>>

\* the rules that match the question
MatchingRules(q) == {k \in 1..Len(ToolRules) : HasWord(ToolRules[k].words, q)}

\* C18: the tool label of a question is the label of the earliest rule, in
\* the order billing/invoice/payment, api/key/token/rate,
\* security/mfa/sso/rbac, troubleshoot/error/issue, one of whose keywords
\* occurs in the question as a substring in any letter case, and
\* 'knowledge.search' if no rule matches; the answer names that label.
C18_FirstMatchingRuleWins ==
  direct.pc \in {"latency", "resolved"} =>
    LET hit == MatchingRules(direct.question)
    IN /\ hit = {} => direct.tool = "knowledge.search"
       /\ \A k \in hit : (\A j \in hit : k <= j) => direct.tool = ToolRules[k].label
       /\ includes(direct.answer, "found using " \o direct.tool \o ":")

\* the response to a question that matches the first and the second rule
C18_Witness ==
  /\ direct.pc = "resolved"
  /\ direct.question = "Rate my invoice"
  /\ MatchingRules(direct.question) = {1, 2}
  /\ direct.tool = "billing.lookup"


\* the prefixes of s
Prefixes(s) == {SubSeq(s, 1, n) : n \in 0..Len(s)}

\* tok is the part of s before its first space, all of s if it has none
IsFirstToken(tok, s) ==
  /\ tok \in Prefixes(s)
  /\ \A i \in 1..Len(tok) : CharAt(tok, i) # " "
  /\ Len(tok) = Len(s) \/ CharAt(s, Len(tok) + 1) = " "

\* the entries of base at the positions at, in the order of base
EntriesAt(base, at) ==
  [k \in 1..Cardinality(at) |->
     base[CHOOSE i \in at : Cardinality({j \in at : j <= i}) = k]]

\* retrieval has returned the entries of the bucket selected (that of the
\* topic if the table has one, else 'default') whose lower case text
\* contains the first space-delimited token of the lower case question, in
\* bucket order, an empty token matching all, or the first two entries of
\* the bucket if no entry contains it; the list is not empty
RetrievedMatchesOrFallback ==
    LET base == mockKnowledgeBase[IF direct.topic \in KnowledgeTopics
                                    THEN direct.topic ELSE "default"]
        low == toLowerCase(direct.question)
        tok == CHOOSE t \in Prefixes(low) : IsFirstToken(t, low)
        at == {i \in 1..Len(base) : includes(toLowerCase(base[i]), tok)}
    IN /\ Len(direct.docs) > 0
       /\ \A k \in 1..Len(direct.docs) : \E i \in 1..Len(base) : direct.docs[k] = base[i]
       /\ at # {} => direct.docs = EntriesAt(base, at)
       /\ at = {} => direct.docs = EntriesAt(base, {i \in 1..Len(base) : i <= 2})

\* C19: retrieval never returns an empty list and returns only entries of
\* the bucket selected: once its delay is over it returns the entries whose
\* lower case text contains the first space-delimited token of the lower
\* case question (an empty token matches all), and the first two entries of
\* the bucket if there is none.
C19_RetrievalReturnsMatchesOrFallback ==
  direct.pc \in {"latency", "resolved", "rejected"} =>
    /\ direct.pc # "rejected"
    /\ RetrievedMatchesOrFallback

\* C19 where retrieval returns
C19_RetrievalMatchesOrFallsBack ==
  direct.pc \in {"latency", "resolved"} => RetrievedMatchesOrFallback

\* a retrieval that finds one of the two entries of the bucket
C19_Witness ==
  /\ direct.pc = "resolved"
  /\ direct.question = "key"
  /\ direct.topic = "api"
  /\ direct.docs = <<"Use API keys from Settings > API to authenticate your requests.">>

\* a retrieval that finds no entry and falls back
C19_FallbackReached ==
  /\ direct.pc = "resolved"
  /\ direct.question = "What are the rate limits?"
  /\ direct.topic = "api"
  /\ Len(direct.docs) = 2


\* m is a system message that records a change of the topic context
IsTopicNote(m) ==
  /\ m.role = "system"
  /\ Len(m.content) >= 26
  /\ SubSeq(m.content, 1, 26) = "Context updated to topic: "

\* the messages of msgs, in their order, whose content contains q in any
\* letter case, and with them the topic notes if a topic is active
MatchingMessages(q, msgs, topic) ==
  EntriesAt(msgs,
    {i \in 1..Len(msgs) :
       \/ q = ""
       \/ HasWord({toLowerCase(q)}, msgs[i].content)
       \/ (topic # Null /\ topic # "" /\ IsTopicNote(msgs[i]))})

\* C20: a filtered transcript that is computed for a query holds exactly
\* the messages of the transcript of that moment, in transcript order,
\* whose content contains the query in any letter case, and, if a topic is
\* active, every system message that records a topic change besides; with
\* no topic active such a message is in it only if it matches.  It is
\* computed by an accepted send(), before its pushes, and at settlement if
\* the last query is not empty.
C20_FilteredTranscript ==
  [][/\ op' = "send_accepted" =>
          filteredMessages' = MatchingMessages(lastQuery', messages, activeTopic)
     /\ (op' \in SettleOps /\ lastQuery # "") =>
          filteredMessages' = MatchingMessages(lastQuery, messages', activeTopic)]_vars

\* with no topic active, the topic note that does not match is left out
C20_Witness ==
  /\ op = "settle_ok"
  /\ activeTopic = Null
  /\ lastQuery = "zzz"
  /\ messages[2] = contextNote("getting-started")
  /\ filteredMessages = <<Msg("user", "zzz")>>

\* with a topic active, the topic note that does not match is kept
C20_NoteKept ==
  /\ op = "settle_ok"
  /\ activeTopic = "getting-started"
  /\ lastQuery = "zzz"
  /\ filteredMessages = <<contextNote("getting-started"), Msg("user", "zzz")>>

\* with no topic active, the topic note that matches is kept
C20_NoteMatches ==
  /\ op = "send_accepted"
  /\ activeTopic = Null
  /\ lastQuery = "TOPIC"
  /\ filteredMessages = <<SeedMessage, contextNote("getting-started")>>


\* the entries of the FAQ bucket of the topic, 'default' if the topic is
\* absent or has no bucket, whose title or content contains q in any letter
\* case, in bucket order
MatchingFaqs(q, topic) ==
  LET faqs == faqCatalog[IF topic \in KnowledgeTopics THEN topic ELSE "default"]
  IN EntriesAt(faqs,
       {i \in 1..Len(faqs) :
          \/ q = ""
          \/ HasWord({toLowerCase(q)}, faqs[i].title)
          \/ HasWord({toLowerCase(q)}, faqs[i].content)})

\* C21: the filtered FAQ list of a query holds exactly the entries of the
\* FAQ bucket of the active topic whose title or content contains the query
\* in any letter case, the 'default' bucket standing in where the active
\* topic is absent or has no bucket.  send() computes it for every input it
\* accepts, and the settlement computes it again if the last query is not
\* empty.
C21_FilteredFaqs ==
  [][/\ (op' \in SendOps /\ ~sending /\ truthy(filterInput(input).cleaned)) =>
          /\ lastQuery' = filterInput(input).cleaned
          /\ filteredFaqs' = MatchingFaqs(lastQuery', activeTopic)
     /\ (op' \in SettleOps /\ lastQuery # "") =>
          filteredFaqs' = MatchingFaqs(lastQuery, activeTopic)]_vars

\* C21 for the active topics that name no property of Object.prototype
C21_FilteredFaqsUnlessInherited ==
  [][/\ (/\ op' \in SendOps
         /\ ~sending
         /\ truthy(filterInput(input).cleaned)
         /\ activeTopic \notin ObjectPrototypeKeys) =>
          /\ lastQuery' = filterInput(input).cleaned
          /\ filteredFaqs' = MatchingFaqs(lastQuery', activeTopic)
     /\ (op' \in SettleOps /\ lastQuery # "") =>
          filteredFaqs' = MatchingFaqs(lastQuery, activeTopic)]_vars

\* an unknown topic filtered by the default bucket
C21_DefaultBucketReached ==
  /\ op = "send_accepted"
  /\ activeTopic = "unknown-id"
  /\ lastQuery = "started"
  /\ Len(filteredFaqs) = 1
  /\ filteredFaqs[1].title = "General help"


\* the positions of the transcript that hold an answer or an error message:
\* the assistant messages other than the greeting and the message of clear()
AnswerPositions ==
  {i \in 1..Len(messages) :
     /\ messages[i].role = "assistant"
     /\ messages[i] # SeedMessage
     /\ messages[i] # ClearedMessage}

\* C22: in every reachable state each answer or error message of the
\* transcript has the user message of its submit before it: up to each such
\* message the transcript holds at least as many user messages, each before
\* it, as answers and error messages; also when clear() is called while
\* the call is pending.
C22_AnswerFollowsItsQuestion ==
  \A i \in AnswerPositions :
    Cardinality({j \in 1..(i - 1) : messages[j].role = "user"})
      >= Cardinality({j \in AnswerPositions : j <= i})


\* the texts send() has stored or passed on: the contents of the user
\* messages of the transcript and the questions of the pending calls
AcceptedTexts ==
  {messages[i].content : i \in {j \in 1..Len(messages) : messages[j].role = "user"}}
    \cup {calls[k].question : k \in 1..Len(calls)}

\* C23: for every raw input that send() accepts, no user message of the
\* transcript and no question passed to the service contains a banned word
\* as a whole word in any letter case.
C23_NoBannedWordStored ==
  \A t \in AcceptedTexts : ~HasBannedWord(t)

\* C23 for the raw inputs without '<' and '>'
C23_NoBannedWordStoredWithoutAngle ==
  (op = "send_accepted" /\ ~includes(arg, "<") /\ ~includes(arg, ">")) =>
    \A t \in AcceptedTexts : ~HasBannedWord(t)

\* s is not empty, has no whitespace at either end and no two whitespace
\* characters in a row
IsNormalized(s) ==
  /\ Len(s) > 0
  /\ ~IsSpace(CharAt(s, 1))
  /\ ~IsSpace(CharAt(s, Len(s)))
  /\ \A i \in 1..(Len(s) - 1) : ~(IsSpace(CharAt(s, i)) /\ IsSpace(CharAt(s, i + 1)))

\* C24: every cleaned text that filterInput gives and send() accepts is
\* whitespace-normalized (not empty, no whitespace at either end, no two
\* whitespace characters in a row), and so is every user message of the
\* transcript.
C24_CleanedIsNormalized ==
  /\ op = "send_accepted" => IsNormalized(lastQuery)
  /\ \A t \in AcceptedTexts : IsNormalized(t)

\* C24 for the raw inputs without '<' and '>'
C24_CleanedIsNormalizedWithoutAngle ==
  (op = "send_accepted" /\ ~includes(arg, "<") /\ ~includes(arg, ">")) =>
    /\ IsNormalized(lastQuery)
    /\ \A t \in AcceptedTexts : IsNormalized(t)


\* the call in flight keeps the question and the topic send() passed to ask
\* (the question and the topic active when the submit was accepted), and the
\* answer pushed for it is the one computed from the two
AnswerForAcceptedTopic ==
  /\ op' = "send_accepted" =>
        /\ calls' = <<askCall(lastQuery', activeTopic)>>
        /\ \E i \in 1..Len(messages') : messages'[i] = Msg("user", lastQuery')
  /\ (calls # <<>> /\ op' \notin SettleOps) =>
        /\ calls' # <<>>
        /\ calls'[1].question = calls[1].question
        /\ calls'[1].topic = calls[1].topic
  /\ op' = "settle_ok" =>
        messages' = Append(messages,
          Msg("assistant", askResult(calls[1].question, calls[1].topic).content))

\* C25: the answer appended for a submit is the one computed for the
\* question and the topic active when the submit was accepted; a topic
\* change delivered in flight changes neither the topic used for retrieval
\* nor the content of the answer, and its context note stands before that
\* answer in the transcript.
C25_AnswerForAcceptedTopic ==
  [][/\ AnswerForAcceptedTopic
     /\ (op' = "settle_ok" /\ activeTopic # calls[1].topic) =>
           \E j \in 1..Len(messages) : messages[j] = contextNote(activeTopic)
    ]_vars

\* C25 with the note of a topic change in flight pushed when the change is
\* delivered, before the answer is
C25_AnswerForAcceptedTopicNotePushed ==
  [][/\ AnswerForAcceptedTopic
     /\ (op' = "topic" /\ calls # <<>>) =>
           messages' = Append(messages, contextNote(activeTopic'))
    ]_vars

\* an answer computed for 'getting-started' is pushed after the topic was
\* changed to 'api' in flight, for a question the two topics answer
\* differently
C25_TopicChangedInFlight ==
  /\ op = "settle_ok"
  /\ activeTopic = "api"
  /\ Len(messages) >= 3
  /\ messages[Len(messages) - 2] = Msg("user", "key")
  /\ messages[Len(messages) - 1] = contextNote("api")
  /\ messages[Len(messages)].content = askResult("key", "getting-started").content
  /\ askResult("key", "getting-started").content # askResult("key", "api").content


\* the step appends exactly one message, a context note, to the transcript
AppendsOneNote ==
  /\ Len(messages') = Len(messages) + 1
  /\ IsPrefix(messages, messages')
  /\ IsTopicNote(messages'[Len(messages')])

\* the transcript after construction: the greeting and the one note of the
\* pre-seeded value delivered on subscription
SeededNote ==
  op = "init" =>
    /\ Len(messages) = 2
    /\ ~IsTopicNote(messages[1])
    /\ IsTopicNote(messages[2])

\* C26: every value the bridge delivers to the chat panel that is a
\* non-null topic appends exactly one system message 'Context updated to
\* topic: ...' to the transcript, the pre-seeded value delivered on
\* subscription and a re-selection of the active topic included; a null
\* topic appends nothing.
C26_NonNullTopicAppendsNote ==
  [][/\ SeededNote
     /\ op' \in {"set_topic", "topic"} =>
           IF lastSet' # Null THEN AppendsOneNote ELSE messages' = messages
    ]_vars

\* C26 for the values that are neither null nor the empty string; null and
\* the empty string append nothing
C26_NonEmptyTopicAppendsNote ==
  [][/\ SeededNote
     /\ op' \in {"set_topic", "topic"} =>
           IF lastSet' # Null /\ lastSet' # "" THEN AppendsOneNote
           ELSE messages' = messages
    ]_vars

\* the pre-seeded topic is selected again in the sidebar: a second note
C26_Reselected ==
  /\ op = "topic"
  /\ lastSet = "getting-started"
  /\ messages = <<SeedMessage, contextNote("getting-started"), contextNote("getting-started")>>

\* the empty string is published and nothing is appended
C26_EmptyTopicDelivered ==
  /\ op = "set_topic"
  /\ lastSet = ""
  /\ activeTopic = ""
  /\ messages = <<SeedMessage, contextNote("getting-started")>>


=============================================================================
